---- MODULE Spec2Model ----
(***************************************************************************)
(* Model of MoenchDetectorControl (moench_tango_control_server.py): a      *)
(* Tango device whose attribute readers, attribute writers and commands    *)
(* forward to a vendor detector object (slsdet.Moench) and whose           *)
(* init_device / delete_device start and stop a receiver process through   *)
(* a ComputerSetup helper.                                                 *)
(*                                                                         *)
(* One action per handler.  Every call into the vendor object may raise    *)
(* RuntimeError (the vendor library reports every failure that way); each  *)
(* action draws that outcome, and the values a client writes, with \E.     *)
(* Text values whose characters the code inspects (re.match, str.lower)    *)
(* are sequences of one-character strings; names that the code only        *)
(* compares as a whole (dictionary keys) are TLA+ strings.                 *)
(***************************************************************************)
EXTENDS Integers, Sequences, FiniteSets, TLC

\* ------------------------------------------------------------------ bounds
\* Calls (init_device included) the clients make in one behaviour.
MaxCalls == 3
\* Longest text written to zmqip in SpecZmqip.
MaxIpLen == 8
\* Longest text written to timing_mode in SpecTiming.
MaxTimingLen == 4

\* -------------------------------------------------------- program constants
\* highvoltage = attribute(min_value=60, max_value=200, ...)
HvMin == 60
HvMax == 200

VARIABLES
    argv,       \* TRUE iff "--virtual" is among sys.argv
    state,      \* the Tango device state (set_state)
    VIRTUAL,    \* self.VIRTUAL
    pc_util,    \* self.pc_util: the ComputerSetup helper and what was asked of it
    handle,     \* TRUE once self.device = Moench() has run
    device,     \* the detector as seen through self.device
    call,       \* the last handler call: what it was given and what came of it
    ncalls,     \* number of handler calls so far
    req         \* the text a client writes in the single-write specifications

vars == <<argv, state, VIRTUAL, pc_util, handle, device, call, ncalls, req>>

\* ------------------------------------------------------------------- values
None == "None"
NL == "\n"

\* A Python value handed to a str-typed writer: a str (its characters) or not.
PyS(s) == [isstr |-> TRUE, s |-> s]
NotAStr == [isstr |-> FALSE, s |-> <<>>]

\* All texts over chars of length at most n.
Strings(chars, n) == UNION {[1..k -> chars] : k \in 0..n}

\* vendor enums (slsdet): the adapter builds them from integers or names them
timingMode == [AUTO_TIMING |-> "AUTO_TIMING", TRIGGER_EXPOSURE |-> "TRIGGER_EXPOSURE"]
detectorSettings(n) == [enum |-> "detectorSettings", value |-> n]
frameDiscardPolicy(n) == [enum |-> "frameDiscardPolicy", value |-> n]
\* _slsdet.IpAddr(text): the vendor's address object built from the text
IpAddr(s) == [ipaddr |-> s]
\* pathlib.PosixPath(text)
PosixPath(s) == [path |-> s]
\* str(x) of a vendor or library object: its text form, tagged with the object
PyStr(x) == [text_of |-> x]

\* str.lower() on the letters the model uses
LowerOf == [c \in {"A", "U", "T", "O", "E", "X", "a", "u", "t", "o", "e", "x"} |->
    CASE c \in {"A", "a"} -> "a" [] c \in {"U", "u"} -> "u" [] c \in {"T", "t"} -> "t"
      [] c \in {"O", "o"} -> "o" [] c \in {"E", "e"} -> "e" [] c \in {"X", "x"} -> "x"]
\* (mutant) the text is compared as written: .lower() forgotten
lower_forgotten(s) == s
lower(s) == [i \in 1..Len(s) |-> IF s[i] \in DOMAIN LowerOf THEN LowerOf[s[i]] ELSE s[i]]

\* ------------------------------------------------------------ the call record
RuntimeError == "RuntimeError"
Info(msg) == [level |-> "info", msg |-> msg]
Error(msg) == [level |-> "error", msg |-> msg]
\* op: the handler; arg: its argument; raised: the exception that left the handler
\* (None when it returned); log: the messages it logged, in order; trace: the calls
\* it made on pc_util and on the vendor object, in order; ret: what it returned.
Call(op, arg, raised, log, trace, ret) ==
    [op |-> op, arg |-> arg, raised |-> raised, log |-> log, trace |-> trace, ret |-> ret]
\* One outside call: f(a) on pc_util or on the vendor object, and how it ended:
\* None (returned), "True"/"False" (what init_pc returned), or the exception raised.
Ext(f, a, out) == [f |-> f, a |-> a, out |-> out]
Raised(ok) == IF ok THEN None ELSE RuntimeError

\* -------------------------------------------------------------------- Init
\* The detector before the server touches it.
Detector0 ==
    [exptime |-> 1, timing |-> timingMode.AUTO_TIMING, triggers |-> 1,
     filename |-> "run", fpath |-> PosixPath("/data"), frames |-> 1, fwrite |-> TRUE,
     highvoltage |-> HvMin, period |-> 1, samples |-> 1,
     settings |-> detectorSettings(13), rx_zmqip |-> IpAddr(<<"0", ".", "0", ".", "0", ".", "0">>),
     rx_zmqport |-> "30001", rx_discardpolicy |-> frameDiscardPolicy(0),
     rx_missingpackets |-> <<0>>, rx_hostname |-> "localhost", rx_tcpport |-> 1954,
     rx_status |-> "IDLE", rx_zmqstream |-> FALSE, rx_version |-> "0x210225",
     firmwareversion |-> "0x210218", status |-> "IDLE"]

NoCall == Call("none", None, None, <<>>, <<>>, None)

\* The server process has started and the device object exists; init_device has
\* not run yet (Tango runs it before it serves any client, hence the guard
\* `handle` of every other handler).  The detector is in either of the two
\* timing modes a Moench has.  pc_util is the ComputerSetup helper, which is not
\* part of this file: what init_pc returns and whether deactivate_pc raises are
\* drawn by the handlers that call them.
Init ==
    /\ argv \in BOOLEAN
    /\ state = "UNKNOWN"
    /\ VIRTUAL = FALSE
    /\ pc_util = [made |-> FALSE, flag |-> FALSE, up |-> FALSE, deacts |-> 0]
    /\ handle = FALSE
    /\ device \in {[Detector0 EXCEPT !.timing = t] :
                      t \in {timingMode.AUTO_TIMING, timingMode.TRIGGER_EXPOSURE}}
    /\ call = NoCall
    /\ ncalls = 0
    /\ req = None

\* ------------------------------------------------------------- delete_device
\* pc_util after deactivate_pc(flag) was asked of it; ok: it returned.
Deactivated(pc, ok) ==
    [pc EXCEPT !.deacts = @ + 1, !.up = IF ok THEN FALSE ELSE @]
\* What the body of delete_device logs.
DeleteLog(ok) ==
    IF ok THEN <<Info("SlsReceiver or zmq socket processes were killed.")>>
          ELSE <<Info("Unable to kill slsReceiver or zmq socket. Please kill it manually.")>>

\* (mutant) an exception of deactivate_pc is not caught
delete_device_uncaught ==
    /\ handle
    /\ ncalls < MaxCalls
    /\ \E ok \in BOOLEAN :
         /\ pc_util' = Deactivated(pc_util, ok)
         /\ call' = Call("delete_device", None, IF ok THEN None ELSE "Exception",
                         IF ok THEN DeleteLog(ok) ELSE <<>>,
                         <<Ext("deactivate_pc", VIRTUAL, IF ok THEN None ELSE "Exception")>>, None)
    /\ ncalls' = ncalls + 1
    /\ UNCHANGED <<argv, state, VIRTUAL, handle, device, req>>

delete_device ==
    /\ handle
    /\ ncalls < MaxCalls
    /\ \E ok \in BOOLEAN :
         /\ pc_util' = Deactivated(pc_util, ok)
         /\ call' = Call("delete_device", None, None, DeleteLog(ok),
                         <<Ext("deactivate_pc", VIRTUAL, IF ok THEN None ELSE "Exception")>>, None)
    /\ ncalls' = ncalls + 1
    /\ UNCHANGED <<argv, state, VIRTUAL, handle, device, req>>

\* --------------------------------------------------------------- init_device
\* (mutant) the FAULT of a failed init_pc is not set
StateAfterInitPc_always_init(pcOk) == "INIT"
\* set_state(DevState.INIT); if not init_pc(...): set_state(DevState.FAULT)
StateAfterInitPc(pcOk) == IF pcOk THEN "INIT" ELSE "FAULT"

\* pcOk: init_pc returned true; statusOk: reading device.status did not raise;
\* deactOk: deactivate_pc (reached only when the status read raised) returned.
init_device ==
    /\ ncalls < MaxCalls
    /\ \E pcOk \in BOOLEAN, statusOk \in BOOLEAN, deactOk \in BOOLEAN :
         LET virt == argv
             fresh == [made |-> TRUE, flag |-> virt, up |-> pcOk, deacts |-> 0]
             pcCall == Ext("init_pc", virt, IF pcOk THEN "True" ELSE "False")
             pcLog == IF pcOk THEN <<>>
                      ELSE <<Info("Unable to start slsReceiver or zmq socket. Check firewall process and already running instances.")>>
         IN /\ statusOk => deactOk
            /\ VIRTUAL' = virt
            /\ handle' = TRUE
            /\ IF statusOk
               THEN /\ state' = StateAfterInitPc(pcOk)
                    /\ pc_util' = fresh
                    /\ call' = Call("init_device", None, None,
                                    pcLog \o <<Info("Current device status: %s")>>,
                                    <<pcCall, Ext("Moench", None, None), Ext("status", None, None)>>,
                                    None)
               ELSE /\ state' = "FAULT"
                    /\ pc_util' = Deactivated(fresh, deactOk)
                    /\ call' = Call("init_device", None, None,
                                    pcLog \o <<Info("Unable to establish connection with detector\n%s")>>
                                          \o DeleteLog(deactOk),
                                    <<pcCall, Ext("Moench", None, None), Ext("status", None, RuntimeError),
                                      Ext("deactivate_pc", virt, IF deactOk THEN None ELSE "Exception")>>,
                                    None)
    /\ ncalls' = ncalls + 1
    /\ UNCHANGED <<argv, device, req>>

\* ------------------------------------------------- shape of the plain handlers
\* A handler that leaves the device state, self.VIRTUAL and pc_util alone (it has
\* no set_state and no pc_util call): it ends with call record c and detector d.
Done(c, d) ==
    /\ handle
    /\ ncalls < MaxCalls
    /\ call' = c
    /\ device' = d
    /\ ncalls' = ncalls + 1
    /\ UNCHANGED <<argv, state, VIRTUAL, pc_util, handle, req>>

\* def read_x(self): return <val computed from self.device.prop>
\* The vendor getter may raise; nothing catches it.
Reads(op, prop, val) ==
    \E ok \in BOOLEAN :
        Done(Call(op, None, Raised(ok), <<>>, <<Ext(prop, None, Raised(ok))>>, IF ok THEN val ELSE None),
             device)

\* def write_x(self, value): self.device.prop = stored
\* The vendor setter may raise; nothing catches it.
Writes(op, prop, value, stored) ==
    \E ok \in BOOLEAN :
        Done(Call(op, value, Raised(ok), <<>>, <<Ext(prop, stored, Raised(ok))>>, None),
             IF ok THEN [device EXCEPT ![prop] = stored] ELSE device)

\* def write_x(self, value): pass
Passes(op, value) == Done(Call(op, value, None, <<>>, <<>>, None), device)

\* ------------------------------------------------------------------ readers
\* What each reader returns when the vendor getter returns, for detector d.
ret_read_exposure(d) == d.exptime
AUTO == <<"A", "U", "T", "O">>
EXT == <<"E", "X", "T">>
ret_read_timing_mode(d) ==
    IF d.timing = timingMode.AUTO_TIMING THEN AUTO
    ELSE IF d.timing = timingMode.TRIGGER_EXPOSURE THEN EXT
    ELSE None
ret_read_triggers(d) == d.triggers
ret_read_filename(d) == d.filename
ret_read_filepath(d) == PyStr(d.fpath)
ret_read_frames(d) == d.frames
ret_read_filewrite(d) == d.fwrite
ret_read_highvoltage(d) == d.highvoltage
ret_read_period(d) == d.period
ret_read_samples(d) == d.samples
ret_read_settings(d) == PyStr(d.settings)
ret_read_zmqip(d) == PyStr(d.rx_zmqip)
ret_read_zmqport(d) == d.rx_zmqport
ret_read_rx_discardpolicy(d) == d.rx_discardpolicy
ret_read_rx_missingpackets(d) == PyStr(d.rx_missingpackets)
ret_read_rx_hostname(d) == d.rx_hostname
ret_read_rx_tcpport(d) == d.rx_tcpport
ret_read_rx_status(d) == PyStr(d.rx_status)
ret_read_rx_zmqstream(d) == d.rx_zmqstream
ret_read_rx_version(d) == d.rx_version
ret_read_firmware_version(d) == d.firmwareversion

read_exposure == Reads("read_exposure", "exptime", ret_read_exposure(device))
read_timing_mode ==
    \E ok \in BOOLEAN :
        LET r == ret_read_timing_mode(device)
        IN Done(Call("read_timing_mode", None, Raised(ok),
                     IF ok /\ r = None
                     THEN <<Info("The timing mode is not assigned correctly.")>> ELSE <<>>,
                     <<Ext("timing", None, Raised(ok))>>, IF ok THEN r ELSE None),
                device)
read_triggers == Reads("read_triggers", "triggers", ret_read_triggers(device))
read_filename == Reads("read_filename", "filename", ret_read_filename(device))
read_filepath == Reads("read_filepath", "fpath", ret_read_filepath(device))
read_frames == Reads("read_frames", "frames", ret_read_frames(device))
read_filewrite == Reads("read_filewrite", "fwrite", ret_read_filewrite(device))
read_highvoltage == Reads("read_highvoltage", "highvoltage", ret_read_highvoltage(device))
read_period == Reads("read_period", "period", ret_read_period(device))
read_samples == Reads("read_samples", "samples", ret_read_samples(device))
read_settings == Reads("read_settings", "settings", ret_read_settings(device))
read_zmqip == Reads("read_zmqip", "rx_zmqip", ret_read_zmqip(device))
read_zmqport == Reads("read_zmqport", "rx_zmqport", ret_read_zmqport(device))
read_rx_discardpolicy ==
    Reads("read_rx_discardpolicy", "rx_discardpolicy", ret_read_rx_discardpolicy(device))
read_rx_missingpackets ==
    Reads("read_rx_missingpackets", "rx_missingpackets", ret_read_rx_missingpackets(device))
read_rx_hostname == Reads("read_rx_hostname", "rx_hostname", ret_read_rx_hostname(device))
read_rx_tcpport == Reads("read_rx_tcpport", "rx_tcpport", ret_read_rx_tcpport(device))
read_rx_status == Reads("read_rx_status", "rx_status", ret_read_rx_status(device))
read_rx_zmqstream == Reads("read_rx_zmqstream", "rx_zmqstream", ret_read_rx_zmqstream(device))
read_rx_version == Reads("read_rx_version", "rx_version", ret_read_rx_version(device))
read_firmware_version ==
    Reads("read_firmware_version", "firmwareversion", ret_read_firmware_version(device))

\* ------------------------------------------------------------------ writers
write_exposure(value) == Writes("write_exposure", "exptime", value, value)

write_timing_mode(value) ==
    IF value.isstr
    THEN IF lower(value.s) = <<"a", "u", "t", "o">>
         THEN \E ok \in BOOLEAN :
                Done(Call("write_timing_mode", value, Raised(ok),
                          <<Info("Setting auto timing mode")>>,
                          <<Ext("timing", timingMode.AUTO_TIMING, Raised(ok))>>, None),
                     IF ok THEN [device EXCEPT !.timing = timingMode.AUTO_TIMING] ELSE device)
         ELSE IF lower(value.s) = <<"e", "x", "t">>
         THEN \E ok \in BOOLEAN :
                Done(Call("write_timing_mode", value, Raised(ok),
                          <<Info("Setting external timing mode")>>,
                          <<Ext("timing", timingMode.TRIGGER_EXPOSURE, Raised(ok))>>, None),
                     IF ok THEN [device EXCEPT !.timing = timingMode.TRIGGER_EXPOSURE] ELSE device)
         ELSE Done(Call("write_timing_mode", value, None, <<>>, <<>>, None), device)
    ELSE Done(Call("write_timing_mode", value, None,
                   <<Info("Timing mode should be \"AUTO/EXT\" string")>>, <<>>, None),
              device)

write_triggers(value) == Writes("write_triggers", "triggers", value, value)
write_filename(value) == Writes("write_filename", "filename", value, value)

\* PosixPath(value) raises TypeError for a value that is no str (or path); the
\* handler catches that one.  A RuntimeError of the vendor setter is not caught.
write_filepath(value) ==
    IF value.isstr
    THEN Writes("write_filepath", "fpath", value, PosixPath(value.s))
    ELSE Done(Call("write_filepath", value, None, <<Error("not valid filepath")>>, <<>>, None),
              device)

write_frames(value) == Writes("write_frames", "frames", value, value)
write_filewrite(value) == Writes("write_filewrite", "fwrite", value, value)

\* The vendor setter raises RuntimeError for a voltage it does not allow; the
\* handler catches it.
\* (mutant) no try/except around the vendor setter
write_highvoltage_uncaught(value) == Writes("write_highvoltage", "highvoltage", value, value)
write_highvoltage(value) ==
    \E ok \in BOOLEAN :
        Done(Call("write_highvoltage", value, None,
                  IF ok THEN <<>> ELSE <<Error("not allowed highvoltage")>>,
                  <<Ext("highvoltage", value, Raised(ok))>>, None),
             IF ok THEN [device EXCEPT !.highvoltage = value] ELSE device)

write_period(value) == Writes("write_period", "period", value, value)
write_samples(value) == Writes("write_samples", "samples", value, value)

\* (mutant) the enum numbers are one too low
settings_dict_shifted ==
    [G1_HIGHGAIN |-> 12, G1_LOWGAIN |-> 13, G2_HIGHCAP_HIGHGAIN |-> 14,
     G2_HIGHCAP_LOWGAIN |-> 15, G2_LOWCAP_HIGHGAIN |-> 16, G2_LOWCAP_LOWGAIN |-> 17,
     G4_HIGHGAIN |-> 18, G4_LOWGAIN |-> 19]
settings_dict ==
    [G1_HIGHGAIN |-> 13, G1_LOWGAIN |-> 14, G2_HIGHCAP_HIGHGAIN |-> 15,
     G2_HIGHCAP_LOWGAIN |-> 16, G2_LOWCAP_HIGHGAIN |-> 17, G2_LOWCAP_LOWGAIN |-> 18,
     G4_HIGHGAIN |-> 19, G4_LOWGAIN |-> 20]

write_settings(value) ==
    IF value \in DOMAIN settings_dict
    THEN Writes("write_settings", "settings", value, detectorSettings(settings_dict[value]))
    ELSE Passes("write_settings", value)

\* ---- re.match(r"^\d{1,3}\.\d{1,3}\.\d{1,3}\.\d{1,3}$", value)
Digits == {"0", "1", "2", "3", "4", "5", "6", "7", "8", "9"}
\* the pattern between ^ and $: \d{1,3} and \. alternating
Pattern == <<"d", "dot", "d", "dot", "d", "dot", "d">>
\* Python's $ (no re.MULTILINE): at the end of the text, or just before a
\* newline that is the last character of the text.
AtDollar(v, i) == i = Len(v) + 1 \/ (i = Len(v) /\ v[i] = NL)
RECURSIVE MatchFrom(_, _, _)
\* the pattern from item k on matches v from position i on
MatchFrom(v, i, k) ==
    IF k > Len(Pattern) THEN AtDollar(v, i)
    ELSE IF Pattern[k] = "dot"
         THEN i <= Len(v) /\ v[i] = "." /\ MatchFrom(v, i + 1, k + 1)
         ELSE \E n \in 1..3 :
                /\ i + n - 1 <= Len(v)
                /\ \A j \in i..(i + n - 1) : v[j] \in Digits
                /\ MatchFrom(v, i + n, k + 1)
re_match(v) == MatchFrom(v, 1, 1)

write_zmqip(value) ==
    IF re_match(value)
    THEN Writes("write_zmqip", "rx_zmqip", value, IpAddr(value))
    ELSE Done(Call("write_zmqip", value, None, <<Error("not valid ip address")>>, <<>>, None),
              device)

write_zmqport(value) == Writes("write_zmqport", "rx_zmqport", value, value)

\* (mutant) the short names of the attribute's documentation are keys too
disard_dict_short ==
    [NO_DISCARD |-> 0, DISCARD_EMPTY_FRAMES |-> 1, DISCARD_PARTIAL_FRAMES |-> 2,
     DISCARD_EMPTY |-> 1, DISCARD_PARTIAL |-> 2]
disard_dict == [NO_DISCARD |-> 0, DISCARD_EMPTY_FRAMES |-> 1, DISCARD_PARTIAL_FRAMES |-> 2]

write_rx_discardpolicy(value) ==
    IF value \in DOMAIN disard_dict
    THEN Writes("write_rx_discardpolicy", "rx_discardpolicy", value,
                frameDiscardPolicy(disard_dict[value]))
    ELSE Passes("write_rx_discardpolicy", value)

write_rx_missingpackets(value) == Passes("write_rx_missingpackets", value)
write_rx_hostname(value) == Writes("write_rx_hostname", "rx_hostname", value, value)
write_rx_tcpport(value) == Writes("write_rx_tcpport", "rx_tcpport", value, value)
\* (mutant) the value is handed to the vendor object
write_rx_status_stored(value) == Writes("write_rx_status", "rx_status", value, value)
write_rx_status(value) == Passes("write_rx_status", value)
write_rx_zmqstream(value) == Writes("write_rx_zmqstream", "rx_zmqstream", value, value)
write_rx_version(value) == Passes("write_rx_version", value)
write_firmware_version(value) == Passes("write_firmware_version", value)

\* ----------------------------------------------------------------- commands
\* self.device.<method>(); the vendor call may raise, nothing catches it.  When it
\* returns, the detector (start) or the receiver (rx_start, rx_stop) has changed
\* its run status.
Command(op, method, prop, status) ==
    \E ok \in BOOLEAN :
        Done(Call(op, None, Raised(ok), <<>>, <<Ext(method, None, Raised(ok))>>, None),
             IF ok THEN [device EXCEPT ![prop] = status] ELSE device)
start == Command("start", "start", "status", "RUNNING")
rx_start == Command("rx_start", "rx_start", "rx_status", "RUNNING")
rx_stop == Command("rx_stop", "rx_stop", "rx_status", "IDLE")

\* ------------------------------------------------- what the clients write
Numbers == {2}
Texts == {"scan"}
TimingWrites == {PyS(<<"a", "u", "t", "o">>), PyS(<<"E", "x", "T">>), PyS(<<"e", "x">>), NotAStr}
FilepathWrites == {PyS("/tmp"), NotAStr}
\* within min_value..max_value of the attribute, which Tango enforces
HvWrites == {HvMin, (HvMin + HvMax) \div 2, HvMax}
SettingsWrites == DOMAIN settings_dict \cup {"", "g1_highgain", "STANDARD"}
DiscardWrites == DOMAIN disard_dict \cup {"DISCARD_EMPTY", "DISCARD_PARTIAL", "", "no_discard"}
IpWrites == {<<"1", "0", ".", "0", ".", "0", ".", "7">>, <<"1", "0", ".", "0", ".", "7">>,
             <<"1", ".", "2", ".", "3", ".", "4", NL>>}

\* ---------------------------------------------------------------------- Next
Next ==
    \/ init_device
    \/ delete_device
    \/ start
    \/ rx_start
    \/ rx_stop
    \/ read_exposure
    \/ read_timing_mode
    \/ read_triggers
    \/ read_filename
    \/ read_filepath
    \/ read_frames
    \/ read_filewrite
    \/ read_highvoltage
    \/ read_period
    \/ read_samples
    \/ read_settings
    \/ read_zmqip
    \/ read_zmqport
    \/ read_rx_discardpolicy
    \/ read_rx_missingpackets
    \/ read_rx_hostname
    \/ read_rx_tcpport
    \/ read_rx_status
    \/ read_rx_zmqstream
    \/ read_rx_version
    \/ read_firmware_version
    \/ \E value \in Numbers : write_exposure(value)
    \/ \E value \in TimingWrites : write_timing_mode(value)
    \/ \E value \in Numbers : write_triggers(value)
    \/ \E value \in Texts : write_filename(value)
    \/ \E value \in FilepathWrites : write_filepath(value)
    \/ \E value \in Numbers : write_frames(value)
    \/ \E value \in BOOLEAN : write_filewrite(value)
    \/ \E value \in HvWrites : write_highvoltage(value)
    \/ \E value \in Numbers : write_period(value)
    \/ \E value \in Numbers : write_samples(value)
    \/ \E value \in SettingsWrites : write_settings(value)
    \/ \E value \in IpWrites : write_zmqip(value)
    \/ \E value \in Texts : write_zmqport(value)
    \/ \E value \in DiscardWrites : write_rx_discardpolicy(value)
    \/ \E value \in Numbers : write_rx_missingpackets(value)
    \/ \E value \in Texts : write_rx_hostname(value)
    \/ \E value \in Numbers : write_rx_tcpport(value)
    \/ \E value \in Texts : write_rx_status(value)
    \/ \E value \in BOOLEAN : write_rx_zmqstream(value)
    \/ \E value \in Texts : write_rx_version(value)
    \/ \E value \in Texts : write_firmware_version(value)

Spec == Init /\ [][Next]_vars

\* ---------------------------------------------- single-write specifications
\* The device after a construction in which init_pc returned true and the status
\* read returned (the state init_device leaves then), with `calls` calls left and
\* the text r about to be written.
Constructed(calls, r) ==
    /\ argv = FALSE
    /\ state = "INIT"
    /\ VIRTUAL = FALSE
    /\ pc_util = [made |-> TRUE, flag |-> FALSE, up |-> TRUE, deacts |-> 0]
    /\ handle = TRUE
    /\ device \in {[Detector0 EXCEPT !.timing = t] :
                      t \in {timingMode.AUTO_TIMING, timingMode.TRIGGER_EXPOSURE}}
    /\ call = Call("init_device", None, None, <<Info("Current device status: %s")>>,
                   <<Ext("init_pc", FALSE, "True"), Ext("Moench", None, None),
                     Ext("status", None, None)>>, None)
    /\ ncalls = MaxCalls - calls
    /\ req = r

\* zmqip: every text of at most MaxIpLen characters over a digit, the dot, a
\* letter and the newline is written once.
IpChars == {"1", ".", "a", NL}
InitZmqip == \E r \in Strings(IpChars, MaxIpLen) : Constructed(1, r)
NextZmqip == write_zmqip(req)
SpecZmqip == InitZmqip /\ [][NextZmqip]_vars

\* timing_mode: every text of at most MaxTimingLen letters of "auto" or of "ext",
\* in both cases, and a value that is no str, is written once and read back.
AutoChars == {"A", "U", "T", "O", "a", "u", "t", "o"}
ExtChars == {"E", "X", "T", "e", "x", "t"}
InitTiming ==
    \E r \in {PyS(t) : t \in Strings(AutoChars, MaxTimingLen) \cup Strings(ExtChars, MaxTimingLen)}
             \cup {NotAStr} :
        Constructed(2, r)
NextTiming ==
    \/ write_timing_mode(req)
    \/ read_timing_mode
SpecTiming == InitTiming /\ [][NextTiming]_vars

\* ------------------------------------------------------------------- claims
\* The step is a call of handler op.
Step(op) == ncalls' = ncalls + 1 /\ call'.op = op
\* The call c asked something of the vendor detector object and that raised.
VendorFailed(c) ==
    \E i \in 1..Len(c.trace) :
        c.trace[i].f \notin {"init_pc", "deactivate_pc"} /\ c.trace[i].out = RuntimeError
\* The call c asked something of the vendor detector object and that returned.
VendorReturned(c) ==
    /\ c.trace # <<>>
    /\ \A i \in 1..Len(c.trace) : c.trace[i].out # RuntimeError
Logged(c, level) == \E i \in 1..Len(c.log) : c.log[i].level = level

\* Four groups of 1 to 3 decimal digits separated by dots, nothing else.
IsDottedQuad(v) ==
    \E p1, p2, p3 \in 1..Len(v) :
        /\ p1 < p2 /\ p2 < p3
        /\ \A i \in 1..Len(v) : IF i \in {p1, p2, p3} THEN v[i] = "." ELSE v[i] \in Digits
        /\ {p1 - 1, p2 - p1 - 1, p3 - p2 - 1, Len(v) - p3} \subseteq 1..3

\* C1 (as claimed; the code does otherwise): a write to zmqip of a text that is a
\* dotted quad stores that address in the detector's rx_zmqip when the vendor
\* setter returns; a write of any other text is rejected: no vendor call is made,
\* an error is logged, nothing is raised and the detector and the device state stay
\* as they were.
C1_ZmqipValidated ==
    [][Step("write_zmqip") =>
         IF IsDottedQuad(call'.arg)
         THEN \/ VendorReturned(call') /\ device'.rx_zmqip = IpAddr(call'.arg)
              \/ VendorFailed(call')
         ELSE /\ call'.trace = <<>>
              /\ Logged(call', "error")
              /\ call'.raised = None
              /\ device' = device
              /\ state' = state]_vars

\* The eight gain names of the claim, in its order; the k-th stands for 12 + k.
GainNames ==
    <<"G1_HIGHGAIN", "G1_LOWGAIN", "G2_HIGHCAP_HIGHGAIN", "G2_HIGHCAP_LOWGAIN",
      "G2_LOWCAP_HIGHGAIN", "G2_LOWCAP_LOWGAIN", "G4_HIGHGAIN", "G4_LOWGAIN">>
IsGainName(v) == \E k \in 1..Len(GainNames) : GainNames[k] = v
GainValue(v) == 12 + (CHOOSE k \in 1..Len(GainNames) : GainNames[k] = v)

\* C2: a write to settings of one of the eight gain names sets the detector's
\* gain setting to the enum value 13..20 of that name, and nothing else of the
\* detector, when the vendor setter returns; a write of any other text raises
\* nothing, logs nothing, calls nothing and leaves the detector and the device
\* state as they were.
C2_SettingsWrite ==
    [][Step("write_settings") =>
         IF IsGainName(call'.arg)
         THEN \/ /\ VendorReturned(call')
                 /\ device' = [device EXCEPT !.settings = detectorSettings(GainValue(call'.arg))]
                 /\ state' = state
              \/ VendorFailed(call')
         ELSE /\ call'.raised = None /\ call'.log = <<>> /\ call'.trace = <<>>
              /\ device' = device
              /\ state' = state]_vars
\* write_settings("G4_LOWGAIN") returned and the gain setting is enum value 20.
C2_Witness ==
    /\ call.op = "write_settings" /\ call.arg = "G4_LOWGAIN" /\ call.raised = None
    /\ device.settings = detectorSettings(20)

\* The discard-policy names in the documentation of the rx_discardpolicy attribute.
DocPolicy == [NO_DISCARD |-> 0, DISCARD_EMPTY |-> 1, DISCARD_PARTIAL |-> 2]

\* C3 (as claimed; the code does otherwise): a write to rx_discardpolicy of one of
\* the three documented names NO_DISCARD, DISCARD_EMPTY, DISCARD_PARTIAL sets the
\* detector's discard policy to enum value 0, 1, 2 respectively.
C3_DocumentedPolicyNames ==
    [][Step("write_rx_discardpolicy") /\ call'.arg \in DOMAIN DocPolicy /\ ~VendorFailed(call')
         => device'.rx_discardpolicy = frameDiscardPolicy(DocPolicy[call'.arg])]_vars

\* The keys write_rx_discardpolicy recognises.
RecognisedPolicyKeys == {"NO_DISCARD", "DISCARD_EMPTY_FRAMES", "DISCARD_PARTIAL_FRAMES"}

ReadBack(op, d) ==
    CASE op = "write_rx_missingpackets" -> ret_read_rx_missingpackets(d)
      [] op = "write_rx_status" -> ret_read_rx_status(d)
      [] op = "write_rx_version" -> ret_read_rx_version(d)
      [] op = "write_firmware_version" -> ret_read_firmware_version(d)
NoOpWriters == {"write_rx_missingpackets", "write_rx_status", "write_rx_version",
                "write_firmware_version"}

\* C5: a call of write_rx_missingpackets, write_rx_status, write_rx_version or
\* write_firmware_version changes no detector field and not the device state,
\* raises nothing, and the corresponding reader returns the same before and after.
C5_ReadOnlyWriters ==
    [][\A op \in NoOpWriters :
         Step(op) => /\ device' = device
                     /\ state' = state
                     /\ call'.raised = None
                     /\ ReadBack(op, device') = ReadBack(op, device)]_vars
\* write_rx_status was called while the receiver was running, and it still is.
C5_Witness ==
    /\ call.op = "write_rx_status" /\ call.arg = "scan"
    /\ ret_read_rx_status(device) = PyStr("RUNNING")

\* The upper-case form of a text over the letters the model uses.
UpperOf == [c \in DOMAIN LowerOf |->
    CASE c \in {"A", "a"} -> "A" [] c \in {"U", "u"} -> "U" [] c \in {"T", "t"} -> "T"
      [] c \in {"O", "o"} -> "O" [] c \in {"E", "e"} -> "E" [] c \in {"X", "x"} -> "X"]
upper(s) == [i \in 1..Len(s) |-> IF s[i] \in DOMAIN UpperOf THEN UpperOf[s[i]] ELSE s[i]]
IsTimingName(v) == v.isstr /\ upper(v.s) \in {AUTO, EXT}
C7_VendorFailuresCaught ==
    [][ncalls' = ncalls + 1 /\ VendorFailed(call')
         => /\ call'.raised = None
            /\ call'.log # <<>>
            /\ \/ state' = "FAULT"
               \/ state' = state /\ device' = device]_vars

\* C8: every delete_device command, and every init_device whose status read
\* raised, asks deactivate_pc of pc_util, after the init_pc of the same
\* initialisation and with the flag init_pc was given, which is TRUE exactly when
\* "--virtual" is a launch argument; delete_device raises nothing, whether
\* deactivate_pc returns or raises, the first time and any later time.
C8_Teardown ==
    [][/\ Step("delete_device") =>
            /\ call'.raised = None
            /\ Len(call'.trace) = 1
            /\ call'.trace[1].f = "deactivate_pc"
            /\ pc_util.made
            /\ call'.trace[1].a = pc_util.flag
            /\ call'.trace[1].a = argv
            /\ pc_util'.deacts = pc_util.deacts + 1
       /\ Step("init_device") /\ VendorFailed(call') =>
            /\ call'.raised = None
            /\ call'.trace[1].f = "init_pc"
            /\ call'.trace[Len(call'.trace)].f = "deactivate_pc"
            /\ call'.trace[1].a = argv
            /\ call'.trace[Len(call'.trace)].a = argv
            /\ pc_util'.deacts = 1]_vars
\* A delete_device command found pc_util already deactivated since its init_pc,
\* deactivate_pc raised, and the command returned.
C8_Witness ==
    /\ call.op = "delete_device" /\ call.raised = None
    /\ call.trace[1].out = "Exception"
    /\ pc_util.deacts = 2
    /\ argv

\* C9: a write_highvoltage whose vendor setter raises RuntimeError logs an error
\* and drops it: the detector keeps its high voltage (and every other field), the
\* device state is unchanged and nothing is raised; when the vendor setter
\* returns, read_highvoltage returns the value written.
C9_Highvoltage ==
    [][Step("write_highvoltage") =>
         /\ call'.raised = None
         /\ state' = state
         /\ IF VendorFailed(call')
            THEN /\ Logged(call', "error")
                 /\ device' = device
            ELSE /\ VendorReturned(call')
                 /\ ret_read_highvoltage(device') = call'.arg]_vars
\* The vendor rejected HvMin while the setpoint was HvMax and the device in INIT:
\* both are as they were.
C9_Witness ==
    /\ call.op = "write_highvoltage" /\ call.arg = HvMin /\ VendorFailed(call)
    /\ device.highvoltage = HvMax
    /\ state = "INIT"

\* C10: when init_device returns, the device state is FAULT if init_pc returned
\* false or the status read raised, and INIT otherwise; after a failed init_pc the
\* detector handle is still created and its status read; and no other handler
\* changes the device state.
C10_DeviceState ==
    [][/\ Step("init_device") =>
            /\ call'.raised = None
            /\ Len(call'.trace) >= 3
            /\ call'.trace[1].f = "init_pc"
            /\ call'.trace[2].f = "Moench"
            /\ call'.trace[3].f = "status"
            /\ handle'
            /\ state' = IF call'.trace[1].out = "False" \/ call'.trace[3].out = RuntimeError
                        THEN "FAULT" ELSE "INIT"
       /\ ncalls' = ncalls + 1 /\ call'.op # "init_device" => state' = state]_vars
\* init_pc returned false, the status read returned, and a later write left the
\* device in FAULT.
C10_Witness ==
    /\ state = "FAULT"
    /\ call.op = "write_exposure" /\ call.raised = None
    /\ pc_util.made /\ ~pc_util.up /\ pc_util.deacts = 0
====
